---- MODULE Spec2Model ----
(***************************************************************************)
(* Model of the content-extraction pipeline of llm-page-parser: the six    *)
(* front ends (parse_local_html, webpage_to_llm, webpage_to_llm_js,        *)
(* webpage_to_llm_cookies, webpage_to_llm_safari, save_and_parse_arc).     *)
(*                                                                         *)
(* Python values are encoded as follows.                                   *)
(*   str            a TLA+ string                                          *)
(*   Optional[str]  a tuple: None is << >>, the string s is <<s>>          *)
(*   a parsed tree  a record [kind, name, attrs, s, kids] (see El, Text)   *)
(***************************************************************************)
EXTENDS Integers, Sequences, FiniteSets, TLC

VARIABLES
    entry,        \* the entry point that is called
    method,       \* the method flag: "trafilatura" | "beautifulsoup" | "auto"
    html,         \* the document the collaborator delivers (as html.parser parses it)
    maxLength,    \* args.max_length of main(): None or an integer
    pc,           \* position inside the call
    soup,         \* the parsed tree the call works on (mutated by decompose), None before parsing
    url,          \* Optional[str]
    title,        \* Optional[str]
    description,  \* Optional[str]
    content,      \* Optional[str]
    invoked,      \* the stages invoked so far in this call, in order
    result,       \* Optional[str]: what the entry point returned / main emits
    raised,       \* Optional[str]: the exception that left the entry point
    exitCode,     \* Optional[int]: the status given to sys.exit
    region,       \* Optional[node]: main_content, the region the Scorer chose
    selected,     \* Optional[node]: main_content as the loop over the selectors left it
    emitted,      \* Optional[str]: what main() writes to stdout / the output file
    selectorFault, \* the selectors whose lookup raises in this installation
    engineOut,    \* history: None before the engine returns, then <<its return value>>
    fault         \* history: None, or <<kind, message>> of the exception raised in the call

vars == <<entry, method, html, maxLength, pc, soup, url, title, description,
          content, invoked, result, raised, exitCode, region, selected, emitted,
          selectorFault, engineOut, fault>>

----------------------------------------------------------------------------
(* Python values *)

None == << >>
Some(v) == <<v>>
Val(o) == o[1]
\* bool(o) for o : Optional[str]
Truthy(o) == o # None /\ Val(o) # ""
\* f"{o}" for o : Optional[str]
Fmt(o) == IF o = None THEN "None" ELSE Val(o)

Min(S) == CHOOSE m \in S : \A x \in S : m <= x
Max(S) == CHOOSE m \in S : \A x \in S : m >= x

----------------------------------------------------------------------------
(* str operations *)

RECURSIVE Rep(_, _)
\* s * n
Rep(s, n) ==
    IF n <= 0 THEN ""
    ELSE LET half == Rep(s, n \div 2)
         IN  IF n % 2 = 0 THEN half \o half ELSE half \o half \o s

\* the characters str.strip() and the regex class \s remove
IsSpace(c) == c \in {" ", "\t", "\n", "\r", "\f"}
IsDigit(c) == c \in {"0", "1", "2", "3", "4", "5", "6", "7", "8", "9"}

\* s[i-1:j] with 1-based inclusive positions; out-of-range positions are clipped
Sub(s, i, j) ==
    LET lo == IF i < 1 THEN 1 ELSE i
        hi == IF j > Len(s) THEN Len(s) ELSE j
    IN  IF lo > hi THEN "" ELSE SubSeq(s, lo, hi)

Char(s, i) == Sub(s, i, i)

\* s.find(p, from) with 1-based positions; 0 when p does not occur
Find(s, p, from) ==
    LET idx == {i \in from..(Len(s) - Len(p) + 1) : Sub(s, i, i + Len(p) - 1) = p}
    IN  IF idx = {} THEN 0 ELSE Min(idx)

\* p in s
Contains(s, p) == Find(s, p, 1) # 0

\* s.startswith(p)
StartsWith(s, p) == Len(p) <= Len(s) /\ Sub(s, 1, Len(p)) = p

RECURSIVE LStripped(_, _)
\* the first position >= i of s that holds no whitespace (Len(s) + 1 without one)
LStripped(s, i) ==
    IF i > Len(s) \/ ~IsSpace(Char(s, i)) THEN i ELSE LStripped(s, i + 1)

RECURSIVE RStripped(_, _)
\* the last position <= j of s that holds no whitespace (0 without one)
RStripped(s, j) ==
    IF j < 1 \/ ~IsSpace(Char(s, j)) THEN j ELSE RStripped(s, j - 1)

\* s.strip()
Strip(s) == Sub(s, LStripped(s, 1), RStripped(s, Len(s)))

\* s[:n] (n may be negative, as in Python)
Slice(s, n) ==
    IF n >= 0 THEN Sub(s, 1, IF n < Len(s) THEN n ELSE Len(s))
    ELSE IF Len(s) + n > 0 THEN Sub(s, 1, Len(s) + n) ELSE ""

RECURSIVE Split(_, _)
\* s.split(sep)
Split(s, sep) ==
    LET i == Find(s, sep, 1)
    IN  IF i = 0 THEN <<s>>
        ELSE <<Sub(s, 1, i - 1)>> \o Split(Sub(s, i + Len(sep), Len(s)), sep)

RECURSIVE Join(_, _)
\* sep.join(parts)
Join(parts, sep) ==
    IF parts = << >> THEN ""
    ELSE IF Len(parts) = 1 THEN parts[1]
    ELSE parts[1] \o sep \o Join(Tail(parts), sep)

\* [line.strip() for line in lines]
StripAll(lines) == [i \in 1..Len(lines) |-> Strip(lines[i])]

----------------------------------------------------------------------------
(* The parsed tree: what BeautifulSoup(html, 'html.parser') builds.         *)
(* kind is "doc" (the BeautifulSoup object), "tag", "text" (NavigableString)*)
(* or "comment" (Comment, a subclass of NavigableString). An absent         *)
(* attribute is the empty string.                                           *)

NoAttrs == [class |-> "", id |-> "", role |-> "", name |-> "", content |-> ""]
El(nm, attrs, kids) == [kind |-> "tag", name |-> nm, attrs |-> attrs, s |-> "", kids |-> kids]
E(nm, kids) == El(nm, NoAttrs, kids)
Text(s) == [kind |-> "text", name |-> "", attrs |-> NoAttrs, s |-> s, kids |-> << >>]
Comment(s) == [kind |-> "comment", name |-> "", attrs |-> NoAttrs, s |-> s, kids |-> << >>]
Doc(kids) == [kind |-> "doc", name |-> "[document]", attrs |-> NoAttrs, s |-> "", kids |-> kids]

IsTag(n) == n.kind = "tag"
\* isinstance(n, str): NavigableString and its subclass Comment
IsString(n) == n.kind \in {"text", "comment"}

RECURSIVE DescSeq(_)
DescSeq(kids) ==
    IF kids = << >> THEN << >>
    ELSE <<kids[1]>> \o DescSeq(kids[1].kids) \o DescSeq(Tail(kids))

\* n.descendants, in document order
Descendants(n) == DescSeq(n.kids)

\* n.find_all(names)
FindAll(n, names) ==
    LET hit(d) == IsTag(d) /\ d.name \in names
    IN  SelectSeq(Descendants(n), hit)

\* n.find(name): Optional node
First(xs) == IF xs = << >> THEN None ELSE Some(xs[1])
FindTag(n, nm) == First(FindAll(n, {nm}))

\* the tokens of a class attribute
Classes(n) ==
    LET nonEmpty(c) == c # ""
    IN  SelectSeq(Split(n.attrs.class, " "), nonEmpty)
HasClass(n, c) == \E i \in 1..Len(Classes(n)) : Classes(n)[i] = c

\* n.find('div', class_=c) and n.find('div', id=i)
FindDivClass(n, c) ==
    LET hit(d) == IsTag(d) /\ d.name = "div" /\ HasClass(d, c)
    IN  First(SelectSeq(Descendants(n), hit))
FindDivId(n, i) ==
    LET hit(d) == IsTag(d) /\ d.name = "div" /\ d.attrs.id = i
    IN  First(SelectSeq(Descendants(n), hit))

RECURSIVE DecomposeSeq(_, _)
DecomposeSeq(kids, names) ==
    IF kids = << >> THEN << >>
    ELSE LET k == kids[1]
         IN  (IF IsTag(k) /\ k.name \in names THEN << >>
              ELSE <<[k EXCEPT !.kids = DecomposeSeq(k.kids, names)]>>)
             \o DecomposeSeq(Tail(kids), names)

\* for element in n(names): element.decompose()
Decompose(n, names) == [n EXCEPT !.kids = DecomposeSeq(n.kids, names)]

\* list(n.stripped_strings): Comment nodes are not part of get_text
StrippedStrings(n) ==
    LET isText(d) == d.kind = "text" /\ Strip(d.s) # ""
        texts == SelectSeq(Descendants(n), isText)
    IN  [i \in 1..Len(texts) |-> Strip(texts[i].s)]

\* n.get_text(separator=sep, strip=True)
GetText(n, sep) == Join(StrippedStrings(n), sep)

\* len(n.get_text(strip=True))
TextLength(n) == Len(GetText(n, ""))

\* n.string: the single child string, through single-child tags
RECURSIVE DotString(_)
DotString(n) ==
    IF Len(n.kids) # 1 THEN None
    ELSE IF IsString(n.kids[1]) THEN Some(n.kids[1].s)
    ELSE DotString(n.kids[1])

----------------------------------------------------------------------------
(* markdownify(str(node), heading_style="ATX", bullets="-"), for the tags   *)
(* the documents of this model use: headings, paragraphs, lists and div are *)
(* blocks, every other tag is replaced by the conversion of its children,   *)
(* comments are skipped.                                                    *)

HeadingLevel(nm) ==
    CASE nm = "h1" -> 1 [] nm = "h2" -> 2 [] nm = "h3" -> 3
      [] nm = "h4" -> 4 [] nm = "h5" -> 5 [] nm = "h6" -> 6 [] OTHER -> 0

RECURSIVE MdNode(_), MdSeq(_)
MdSeq(kids) == IF kids = << >> THEN "" ELSE MdNode(kids[1]) \o MdSeq(Tail(kids))
MdNode(n) ==
    IF n.kind = "text" THEN n.s
    ELSE IF n.kind = "comment" THEN ""
    ELSE LET inner == MdSeq(n.kids)
         IN  IF HeadingLevel(n.name) > 0
                THEN "\n\n" \o Rep("#", HeadingLevel(n.name)) \o " " \o Strip(inner) \o "\n\n"
             ELSE IF n.name \in {"p", "div"} THEN "\n\n" \o Strip(inner) \o "\n\n"
             ELSE IF n.name = "li" THEN "- " \o Strip(inner) \o "\n"
             ELSE IF n.name \in {"ul", "ol"} THEN "\n\n" \o inner \o "\n"
             ELSE inner

md(n) == MdNode(n)

\* Collapse without the filter "if line"
CollapseKeepsEmptyLines(markdown) == Join(StripAll(Split(markdown, "\n")), "\n")

\* lines = [line.strip() for line in markdown.split('\n')]
\* '\n'.join(line for line in lines if line)
Collapse(markdown) ==
    LET lines == StripAll(Split(markdown, "\n"))
        nonEmpty(line) == line # ""
    IN  Join(SelectSeq(lines, nonEmpty), "\n")

\* the conversion of a chosen region
ToMarkdown(node) == Collapse(md(node))

----------------------------------------------------------------------------
(* CSS selection (soup.select / soup.select_one) for the selectors the     *)
(* front ends use.                                                          *)

\* does tag n match selector sel; inMui: n has an ancestor of class MuiContainer-root
Matches(sel, n, inMui) ==
    CASE sel \in {"main", "article"} -> n.name = sel
      [] sel = "[role=\"main\"]" -> n.attrs.role = "main"
      [] sel = "div.content" -> n.name = "div" /\ HasClass(n, "content")
      [] sel = ".MuiContainer-root article" -> n.name = "article" /\ inMui
      [] sel = "div[class*=\"jss\"][class*=\"511\"]" ->
            n.name = "div" /\ Contains(n.attrs.class, "jss") /\ Contains(n.attrs.class, "511")
      [] sel = "div:has(> h1, > h2, > h3, > p, > ul, > ol, > pre)" ->
            /\ n.name = "div"
            /\ \E i \in 1..Len(n.kids) :
                  IsTag(n.kids[i]) /\ n.kids[i].name \in {"h1", "h2", "h3", "p", "ul", "ol", "pre"}
      [] StartsWith(sel, "[class*=\"") ->
            Contains(n.attrs.class, Sub(sel, 10, Len(sel) - 2))
      [] StartsWith(sel, ".") -> HasClass(n, Sub(sel, 2, Len(sel)))
      [] StartsWith(sel, "#") -> n.attrs.id = Sub(sel, 2, Len(sel))
      [] OTHER -> FALSE

RECURSIVE SelectSeq2(_, _, _)
SelectSeq2(kids, sel, inMui) ==
    IF kids = << >> THEN << >>
    ELSE LET k == kids[1]
         IN  (IF IsTag(k) /\ Matches(sel, k, inMui) THEN <<k>> ELSE << >>)
             \o SelectSeq2(k.kids, sel, inMui \/ (IsTag(k) /\ HasClass(k, "MuiContainer-root")))
             \o SelectSeq2(Tail(kids), sel, inMui)

\* n.select(sel): the matches in document order
Select(n, sel) == SelectSeq2(n.kids, sel, FALSE)
\* n.select_one(sel)
SelectOne(n, sel) == First(Select(n, sel))

----------------------------------------------------------------------------
(* Candidate Region Scorer: the score-all pass of parse_local_html and the *)
(* first-match chains of the other front ends.                              *)

MinSelectorText == 100
MinDivText == 200
MarkerWindow == 100
ArcMinDivText == 100
MinLineLength == 2

RemovedTags == {"script", "style", "nav", "header", "footer", "aside", "button"}
RemovedTagsNoButton == {"script", "style", "nav", "header", "footer", "aside"}
\* FallbackRemovedTags with nav and footer forgotten
FallbackKeepsNav == {"script", "style", "header"}
FallbackRemovedTags == {"script", "style", "nav", "header", "footer"}
BoilerplateMarkers == {"Cookie", "Accept", "Login", "Sign in"}

content_selectors == <<
    "main", "article", "[role=\"main\"]", ".main-content", "#main-content",
    ".content", "#content",
    ".docs-content", ".documentation-content", ".markdown-body", ".doc-content",
    ".page-content", ".post-content",
    ".jss4-511", "[class*=\"makeStyles-content\"]", "[class*=\"TechDocsContent\"]",
    "[class*=\"MarkdownContent\"]", ".MuiContainer-root article",
    "div[class*=\"jss\"][class*=\"511\"]",
    ".MuiContainer-root", ".MuiPaper-root",
    "div:has(> h1, > h2, > h3, > p, > ul, > ol, > pre)" >>

arc_selectors == <<
    "main", "article", "[role=\"main\"]", ".docs-content", ".documentation-content",
    ".markdown-body", ".content-body", "#content", ".content", "div.content",
    ".doc-content", ".page-content", ".post-content",
    ".MuiContainer-root", "[class*=\"makeStyles-content\"]",
    "[class*=\"docs\"]", "[class*=\"documentation\"]", ".main-content", "#main-content" >>

safari_selectors == <<
    "main", "article", "[role=\"main\"]", ".docs-content", ".documentation-content",
    ".markdown-body", ".content-body", "#content", ".content", "div.content",
    ".doc-content", ".page-content", ".post-content" >>

RECURSIVE ConsiderElementsLastLongest(_, _)
\* ConsiderElements with the running best replaced by an element of equal length
ConsiderElementsLastLongest(best, elements) ==
    IF elements = << >> THEN best
    ELSE LET elem == elements[1]
             text_length == TextLength(elem)
             better == /\ text_length > MinSelectorText
                       /\ (best = None \/ text_length >= TextLength(Val(best)))
         IN  ConsiderElementsLastLongest(IF better THEN Some(elem) ELSE best, Tail(elements))

RECURSIVE ConsiderElementsFloorInclusive(_, _)
\* ConsiderElements with the floor test text_length >= 100
ConsiderElementsFloorInclusive(best, elements) ==
    IF elements = << >> THEN best
    ELSE LET elem == elements[1]
             text_length == TextLength(elem)
             better == /\ text_length >= MinSelectorText
                       /\ (best = None \/ text_length > TextLength(Val(best)))
         IN  ConsiderElementsFloorInclusive(IF better THEN Some(elem) ELSE best, Tail(elements))

RECURSIVE ConsiderElements(_, _)
\* the inner loop: the running best is replaced by a matched element with more
\* than MinSelectorText characters that is strictly longer than it
ConsiderElements(best, elements) ==
    IF elements = << >> THEN best
    ELSE LET elem == elements[1]
             text_length == TextLength(elem)
             better == /\ text_length > MinSelectorText
                       /\ (best = None \/ text_length > TextLength(Val(best)))
         IN  ConsiderElements(IF better THEN Some(elem) ELSE best, Tail(elements))

RECURSIVE SelectorPass(_, _, _, _)
\* the loop over content_selectors; a selector whose lookup raises is skipped
SelectorPass(tree, selectors, best, faulty) ==
    IF selectors = << >> THEN best
    ELSE LET selector == selectors[1]
             next == IF selector \in faulty THEN best
                     ELSE ConsiderElements(best, Select(tree, selector))
         IN  SelectorPass(tree, Tail(selectors), next, faulty)

\* the first element of xs with the largest key (max(xs, key=...), and
\* sort(reverse=True)[0], which is stable)
FirstLongest(xs) ==
    LET top == Max({TextLength(xs[i]) : i \in 1..Len(xs)})
        i0 == Min({i \in 1..Len(xs) : TextLength(xs[i]) = top})
    IN  xs[i0]

\* LargestDivPass without the test of the boilerplate markers
LargestDivPassNoMarkers(tree) ==
    LET qualifies(div) == TextLength(div) > MinDivText
        text_divs == SelectSeq(FindAll(tree, {"div"}), qualifies)
    IN  IF text_divs = << >> THEN None ELSE Some(FirstLongest(text_divs))

\* the largest-text-div pass of parse_html_file
LargestDivPass(tree) ==
    LET qualifies(div) ==
            LET text == GetText(div, "")
            IN  /\ Len(text) > MinDivText
                /\ \A skip \in BoilerplateMarkers : ~Contains(Slice(text, MarkerWindow), skip)
        text_divs == SelectSeq(FindAll(tree, {"div"}), qualifies)
    IN  IF text_divs = << >> THEN None ELSE Some(FirstLongest(text_divs))

\* ScoreAll as a first-match walk, without the text-length floor
ScoreAllFirstMatch(tree, faulty) ==
    LET walk == [i \in 1..Len(content_selectors) |-> First(Select(tree, content_selectors[i]))]
        hits == {i \in 1..Len(content_selectors) : walk[i] # None}
    IN  IF hits = {} THEN LargestDivPass(tree) ELSE walk[Min(hits)]

\* the region parse_html_file chooses in the tree left by the structural removal
ScoreAll(tree, faulty) ==
    LET main_content == SelectorPass(tree, content_selectors, None, faulty)
    IN  IF main_content # None THEN main_content ELSE LargestDivPass(tree)

\* OrElse with a tag without contents taken as false
OrElseNonEmpty(a, b) == IF a # None /\ Val(a).kids # << >> THEN a ELSE b

\* a or b, for Optional nodes (a Tag is always truthy)
OrElse(a, b) == IF a # None THEN a ELSE b

\* the soup.find chain of webpage_to_llm.extract_with_beautifulsoup, before soup.body
ChainFetch(tree) ==
    OrElse(FindTag(tree, "main"), OrElse(FindTag(tree, "article"),
    OrElse(FindDivClass(tree, "content"), FindDivId(tree, "content"))))

\* webpage_to_llm.extract_with_beautifulsoup
FirstMatchFetch(tree) == OrElse(ChainFetch(tree), FindTag(tree, "body"))

\* the soup.find chain of extract_content of webpage_to_llm_js and
\* webpage_to_llm_cookies, before soup.body
ChainJs(tree) ==
    OrElse(FindTag(tree, "main"), OrElse(FindTag(tree, "article"),
    OrElse(FindDivClass(tree, "content"), OrElse(FindDivId(tree, "content"),
    OrElse(FindDivClass(tree, "docs-content"), FindDivClass(tree, "markdown-body"))))))

\* extract_content of webpage_to_llm_js and webpage_to_llm_cookies
FirstMatchJs(tree) == OrElse(ChainJs(tree), FindTag(tree, "body"))

RECURSIVE SelectorWalk(_, _)
\* for selector in selectors: main_content = soup.select_one(selector); break on a match
SelectorWalk(tree, selectors) ==
    IF selectors = << >> THEN None
    ELSE OrElse(SelectOne(tree, selectors[1]), SelectorWalk(tree, Tail(selectors)))

RECURSIVE WalkRaises(_, _, _)
\* does the walk reach a selector whose lookup raises before any selector matched
\* (the loop has no try block, so the exception leaves extract_content)
WalkRaises(tree, selectors, faulty) ==
    IF selectors = << >> THEN FALSE
    ELSE IF selectors[1] \in faulty THEN TRUE
    ELSE IF SelectOne(tree, selectors[1]) # None THEN FALSE
    ELSE WalkRaises(tree, Tail(selectors), faulty)

\* FirstMatchArc with every div a candidate of the div pass
FirstMatchArcAnyDiv(tree) ==
    LET divs == FindAll(tree, {"div"})
        largest == IF divs = << >> THEN None ELSE Some(FirstLongest(divs))
    IN  OrElse(SelectorWalk(tree, arc_selectors), OrElse(largest, FindTag(tree, "body")))

\* extract_content of save_and_parse_arc
FirstMatchArc(tree) ==
    LET substantial(d) == TextLength(d) > ArcMinDivText
        text_divs == SelectSeq(FindAll(tree, {"div"}), substantial)
        largest == IF text_divs = << >> THEN None ELSE Some(FirstLongest(text_divs))
    IN  OrElse(SelectorWalk(tree, arc_selectors), OrElse(largest, FindTag(tree, "body")))

\* extract_content of webpage_to_llm_safari
FirstMatchSafari(tree) ==
    LET divs == FindAll(tree, {"div"})
        largest == IF divs = << >> THEN None ELSE Some(FirstLongest(divs))
    IN  OrElse(SelectorWalk(tree, safari_selectors), OrElse(largest, FindTag(tree, "body")))

----------------------------------------------------------------------------
(* Raw-text fallbacks *)

\* CleanedLines without the test of the line length
CleanedLinesKeepShort(text) ==
    LET keep(line) == line # "" /\ ~StartsWith(line, "MuiTypography")
    IN  SelectSeq(StripAll(Split(text, "\n")), keep)

\* parse_html_file, Method 3, on the <body> element (an Optional node)
CleanedLines(text) ==
    LET keep(line) == line # "" /\ Len(line) > MinLineLength /\ ~StartsWith(line, "MuiTypography")
    IN  SelectSeq(StripAll(Split(text, "\n")), keep)

BodyText(tree) ==
    LET body == Decompose(Val(FindTag(tree, "body")), FallbackRemovedTags)
    IN  Join(CleanedLines(GetText(body, "\n")), "\n")

\* soup.get_text(separator='\n', strip=True) on a fresh parse (Safari and Arc)
AllText(tree) == GetText(tree, "\n")

----------------------------------------------------------------------------
(* Metadata Extractor *)

\* the end (exclusive) of the longest run of digits (\d+) from position i
DigitRunEnd(s, i) ==
    LET stops == {j \in i..Len(s) : ~IsDigit(Char(s, j))}
    IN  IF stops = {} THEN Len(s) + 1 ELSE Min(stops)

\* the end (exclusive) of the longest run of non-space characters ([^\s]+) from i
NonSpaceRunEnd(s, i) ==
    LET stops == {j \in i..Len(s) : IsSpace(Char(s, j))}
    IN  IF stops = {} THEN Len(s) + 1 ELSE Min(stops)

\* the match of \(\d+\)(https?://[^\s]+) at position j of s: group(1) or None
UrlAfterMarker(s, j) ==
    LET k == DigitRunEnd(s, j)
        u == k + 1
        schemeLen == IF Sub(s, u, u + 7) = "https://" THEN 8
                     ELSE IF Sub(s, u, u + 6) = "http://" THEN 7 ELSE 0
        e == NonSpaceRunEnd(s, u + schemeLen)
    IN  IF k > j /\ k <= Len(s) /\ Char(s, k) = ")" /\ schemeLen > 0 /\ e > u + schemeLen
        THEN Some(Sub(s, u, e - 1)) ELSE None

\* re.search(r'saved from url=\(\d+\)(https?://[^\s]+)', s): group(1) of the
\* leftmost match, or None
SavedUrlSearch(s) ==
    LET marker == "saved from url=("
        starts == {i \in 1..Len(s) :
                      /\ Sub(s, i, i + Len(marker) - 1) = marker
                      /\ UrlAfterMarker(s, i + Len(marker)) # None}
    IN  IF starts = {} THEN None ELSE UrlAfterMarker(s, Min(starts) + Len(marker))

RECURSIVE FirstSavedUrl(_)
\* the loop over the strings found: the first regex match wins
FirstSavedUrl(strings) ==
    IF strings = << >> THEN None
    ELSE LET match == SavedUrlSearch(strings[1].s)
         IN  IF match # None THEN Some(Strip(Val(match))) ELSE FirstSavedUrl(Tail(strings))

\* soup.find_all(string=lambda text: isinstance(text, str) and 'saved from url' in text)
\* and the loop over it
RecoverUrl(tree) ==
    LET hit(d) == IsString(d) /\ Contains(d.s, "saved from url")
    IN  FirstSavedUrl(SelectSeq(Descendants(tree), hit))

\* soup.title.string if soup.title else "Untitled"
FileTitle(tree) ==
    IF FindTag(tree, "title") # None THEN DotString(Val(FindTag(tree, "title")))
    ELSE Some("Untitled")

\* extract_metadata: metadata['title']
MetadataTitle(tree) ==
    IF FindTag(tree, "title") # None THEN DotString(Val(FindTag(tree, "title"))) ELSE None

\* extract_metadata: metadata['description']
MetadataDescription(tree) ==
    LET hit(d) == IsTag(d) /\ d.name = "meta" /\ d.attrs.name = "description"
        meta_desc == First(SelectSeq(Descendants(tree), hit))
    IN  IF meta_desc # None THEN Some(Val(meta_desc).attrs.content) ELSE None

\* driver.title / the tab title: the text of <title>, "" without one
DriverTitle(tree) ==
    IF FindTag(tree, "title") = None THEN "" ELSE Strip(GetText(Val(FindTag(tree, "title")), ""))

----------------------------------------------------------------------------
(* The documents of the model *)

MaxLengthSteps == 3
LengthStep == 25

PageUrl == "https://example.com/page"
Filler(n) == Rep("x", n)
WithClass(c) == [NoAttrs EXCEPT !.class = c]
P(s) == E("p", <<Text(s)>>)

PreNone == << >>
PreSaved == <<Comment(" saved from url=(0043)https://example.com/page ")>>
PreTwo == <<Comment(" saved from url=about:blank "),
            Comment(" saved from url=(0012)http://b.org/x ")>>
PreOther == <<Comment(" generated page ")>>
Pres == {PreSaved, PreTwo, PreOther}

HeadDocs == <<E("title", <<Text("Docs")>>)>>
HeadNone == << >>
HeadEmptyTitle == <<E("title", << >>)>>
HeadDesc == HeadDocs \o <<El("meta", [NoAttrs EXCEPT !.name = "description", !.content = "About"], << >>)>>
HeadEmptyDesc == HeadDocs \o <<El("meta", [NoAttrs EXCEPT !.name = "description"], << >>)>>
Heads == {HeadNone, HeadEmptyTitle, HeadDesc, HeadEmptyDesc}

BodyE2E == <<E("nav", <<Text("skip")>>), E("main", <<E("h1", <<Text("Hi")>>), P("World")>>)>>
BodyNavFooter == <<E("nav", <<Text("Home About")>>), E("footer", <<Text("Copyright")>>)>>
BodyEmpty == << >>
BodyMainLong == <<E("nav", <<Text("skip")>>),
                  E("main", <<E("h2", <<Text("Guide")>>), P(Filler(MinSelectorText))>>)>>
BodySavedText == <<P("saved from url=(0019)https://c.net/y here"), E("main", <<P("World")>>)>>
BodyDivLong == <<E("div", <<P("Cookie banner: accept all cookies " \o Filler(MinDivText))>>),
                 E("div", <<P("Intro " \o Filler(MinDivText))>>)>>
BodyAsideButton == <<E("aside", <<Text("Related")>>), E("button", <<Text("Subscribe")>>),
                     P("Plain paragraph")>>
BodyEmptyMain == <<E("main", << >>), P("Text outside main")>>
BodyMui == <<P("MuiTypography-root"), P("ok"), P("Kept line")>>
BodyArticles == <<El("div", WithClass("content"), <<P(Filler(MinSelectorText + 1))>>),
                  E("article", <<P(Filler(MinSelectorText + 2))>>)>>
\* page chrome around one paragraph; the script element is an external one
BodyChrome == <<E("script", << >>), E("header", <<Text("Masthead")>>),
                E("aside", <<Text("Related links")>>), E("button", <<Text("Subscribe")>>),
                P("Plain paragraph"), E("footer", <<Text("Copyright")>>)>>
Bodies == {BodyNavFooter, BodyEmpty, BodyMainLong, BodySavedText, BodyDivLong,
           BodyAsideButton, BodyEmptyMain, BodyMui, BodyArticles, BodyChrome}

DocOf(pre, head, body) ==
    Doc(pre \o <<E("html", <<E("head", head), E("body", body)>>)>>)

\* a fragment without <html>, <head> or <body>: html.parser adds none
DocFragment == Doc(<<P("Loose paragraph")>>)
DocE2E == DocOf(PreNone, HeadDocs, BodyE2E)
DocNavFooter == DocOf(PreNone, HeadDocs, BodyNavFooter)
\* no text at all
DocBlank == DocOf(PreNone, HeadNone, BodyEmpty)

Docs == {DocE2E, DocFragment, DocBlank}
        \cup {DocOf(pre, HeadDocs, BodyE2E) : pre \in Pres}
        \cup {DocOf(PreNone, head, BodyE2E) : head \in Heads}
        \cup {DocOf(PreNone, HeadDocs, body) : body \in Bodies}

----------------------------------------------------------------------------
(* The call *)

EntryPoints == {"file", "fetch", "js", "cookies", "safari", "arc"}
Methods == {"trafilatura", "beautifulsoup", "auto"}
HasSelector == "div:has(> h1, > h2, > h3, > p, > ul, > ol, > pre)"
RoleSelector == "[role=\"main\"]"

\* the selectors whose lookup can raise in an installation, per entry point
\* (soup.find, used by the other entry points, takes no selector)
SelectorFaults(e) ==
    CASE e = "file" -> {{}, {HasSelector}}
      [] e \in {"arc", "safari"} -> {{}, {RoleSelector}}
      [] OTHER -> {{}}

\* what the Semantic Extraction Engine can return
EngineSentinel == "ENGINE MARKDOWN"
EngineResults == {None, Some(""), Some(EngineSentinel)}

\* the values of --max-length
MaxLengthChoices == {None} \cup {Some(LengthStep * k) : k \in (-1)..MaxLengthSteps}

TruncationSuffix == "\n\n[Content truncated...]"
Placeholder == "No content extracted"

Init ==
    /\ entry \in EntryPoints
    /\ method \in (IF entry = "arc" THEN {"auto"} ELSE Methods)
    /\ html \in Docs
    /\ maxLength \in (IF entry \in {"fetch", "js"} THEN MaxLengthChoices ELSE {None})
    /\ selectorFault \in SelectorFaults(entry)
    /\ pc = "start"
    /\ soup = None
    /\ url = None
    /\ title = None
    /\ description = None
    /\ content = None
    /\ invoked = << >>
    /\ result = None
    /\ raised = None
    /\ exitCode = None
    /\ region = None
    /\ selected = None
    /\ emitted = None
    /\ engineOut = None
    /\ fault = None

\* ExceptClause with the catch-all clause of process_js_webpage missing
ExceptClauseNoCatchAll(e, kind, message) ==
    CASE e \in {"file", "js"} ->
            [returns |-> None, raises |-> Some(kind \o ": " \o message), exits |-> None]
      [] e = "arc" ->
            [returns |-> None, raises |-> None, exits |-> Some(1)]
      [] e = "fetch" ->
            [returns |-> Some((IF kind = "RequestException" THEN "Error fetching webpage: "
                               ELSE "Error processing webpage: ") \o message),
             raises |-> None, exits |-> None]
      [] e \in {"cookies", "safari"} ->
            [returns |-> Some("Error: " \o message), raises |-> None, exits |-> None]

\* ExceptClause with one error format for every network entry point
ExceptClauseUniform(e, kind, message) ==
    CASE e = "file" ->
            [returns |-> None, raises |-> Some(kind \o ": " \o message), exits |-> None]
      [] e = "arc" ->
            [returns |-> None, raises |-> None, exits |-> Some(1)]
      [] OTHER ->
            [returns |-> Some("Error: " \o message), raises |-> None, exits |-> None]

\* the except clauses of the entry points: what an exception of class kind
\* with str() message, raised inside entry point e, becomes. parse_html_file
\* has no try block; the Arc flow prints to stderr and calls sys.exit(1).
ExceptClause(e, kind, message) ==
    CASE e = "file" ->
            [returns |-> None, raises |-> Some(kind \o ": " \o message), exits |-> None]
      [] e = "arc" ->
            [returns |-> None, raises |-> None, exits |-> Some(1)]
      [] e = "fetch" ->
            [returns |-> Some((IF kind = "RequestException" THEN "Error fetching webpage: "
                               ELSE "Error processing webpage: ") \o message),
             raises |-> None, exits |-> None]
      [] e = "js" ->
            [returns |-> Some("Error processing webpage: " \o message),
             raises |-> None, exits |-> None]
      [] e \in {"cookies", "safari"} ->
            [returns |-> Some("Error: " \o message), raises |-> None, exits |-> None]

\* an exception is raised at the current position of the call
Handle(kind, message) ==
    LET h == ExceptClause(entry, kind, message)
    IN  /\ fault' = Some(<<kind, message>>)
        /\ result' = h.returns
        /\ raised' = h.raises
        /\ exitCode' = h.exits
        /\ pc' = IF h.returns # None THEN "returned" ELSE "done"

\* EngineEnabled without the test of the method flag
EngineAlways(m) == TRUE

\* if method in ['trafilatura', 'auto']
EngineEnabled(m) == m \in {"trafilatura", "auto"}

\* ScorerEnabled without the test of the content found so far
ScorerIgnoringContent(c, m) == m \in {"beautifulsoup", "auto"}

\* if not content and method in ['beautifulsoup', 'auto'] (in extract_content the
\* early return on a non-empty engine result plays the part of "not content")
ScorerEnabled(c, m) == ~Truthy(c) /\ m \in {"beautifulsoup", "auto"}

\* has the stage been invoked in this call
Was(stage) == \E i \in 1..Len(invoked) : invoked[i] = stage

\* the exception a failing collaborator raises, per entry point
CollaboratorFault ==
    CASE entry = "file" -> "UnicodeDecodeError"
      [] entry = "fetch" -> "RequestException"
      [] entry = "js" -> "WebDriverException"
      [] entry = "cookies" -> "OSError"
      [] entry = "safari" -> "WebDriverException"
      [] entry = "arc" -> "RuntimeError"

\* open(file_path).read() + BeautifulSoup(html) / fetch_webpage / fetch_with_selenium /
\* get_chrome_cookies + fetch_with_cookies_* / fetch_with_safari / get_arc_page_source
Fetch ==
    /\ pc = "start"
    /\ \E ok \in BOOLEAN, use_selenium \in BOOLEAN :
        /\ (entry # "cookies") => use_selenium
        /\ IF ok
           THEN /\ soup' = html
                /\ pc' = IF entry \in {"file", "fetch"} THEN "metadata" ELSE "engine"
                /\ url' = IF entry = "file" THEN None ELSE Some(PageUrl)
                /\ title' = IF entry \in {"file", "fetch"} \/ ~use_selenium THEN None
                            ELSE Some(DriverTitle(html))
                /\ UNCHANGED <<result, raised, exitCode, fault>>
           ELSE /\ Handle(CollaboratorFault, "collaborator failed")
                /\ UNCHANGED <<soup, url, title>>
    /\ UNCHANGED <<entry, method, html, maxLength, description, content, invoked,
                   region, selected, emitted, selectorFault, engineOut>>

\* parse_html_file lines 24-36; process_webpage line 105 (extract_metadata)
ExtractMetadata ==
    /\ pc = "metadata"
    /\ IF entry = "file"
       THEN /\ url' = RecoverUrl(soup)
            /\ title' = FileTitle(soup)
            /\ UNCHANGED description
       ELSE /\ title' = MetadataTitle(soup)
            /\ description' = MetadataDescription(soup)
            /\ UNCHANGED url
    /\ pc' = "engine"
    /\ UNCHANGED <<entry, method, html, maxLength, soup, content, invoked, result,
                   raised, exitCode, region, selected, emitted, selectorFault, engineOut, fault>>

\* Method 1: trafilatura.extract, when the method flag enables it
Engine ==
    /\ pc = "engine"
    /\ IF EngineEnabled(method)
       THEN /\ invoked' = Append(invoked, "engine")
            /\ \/ \E r \in EngineResults :
                    /\ content' = r
                    /\ engineOut' = Some(r)
                    /\ pc' = "scorer"
                    /\ UNCHANGED <<result, raised, exitCode, fault>>
               \/ /\ Handle("Exception", "engine failed")
                  /\ UNCHANGED <<content, engineOut>>
       ELSE /\ pc' = "scorer"
            /\ UNCHANGED <<invoked, content, engineOut, result, raised, exitCode, fault>>
    /\ UNCHANGED <<entry, method, html, maxLength, soup, url, title, description,
                   region, selected, emitted, selectorFault>>

\* ScorerRemovedTags with button kept in every front end
ScorerLeavesButton == RemovedTagsNoButton

\* the structural removal of each front end's Scorer
ScorerRemovedTags == IF entry \in {"file", "arc"} THEN RemovedTags ELSE RemovedTagsNoButton

\* the region each front end's Scorer chooses in the tree after the removal
ChooseRegion(tree) ==
    CASE entry = "file" -> ScoreAll(tree, selectorFault)
      [] entry = "fetch" -> FirstMatchFetch(tree)
      [] entry \in {"js", "cookies"} -> FirstMatchJs(tree)
      [] entry = "arc" -> FirstMatchArc(tree)
      [] entry = "safari" -> FirstMatchSafari(tree)

\* main_content after the loop over the selectors (the chain of soup.find
\* calls in the entry points that have no selector list)
SelectorStage(tree) ==
    CASE entry = "file" -> SelectorPass(tree, content_selectors, None, selectorFault)
      [] entry = "fetch" -> ChainFetch(tree)
      [] entry \in {"js", "cookies"} -> ChainJs(tree)
      [] entry = "arc" -> SelectorWalk(tree, arc_selectors)
      [] entry = "safari" -> SelectorWalk(tree, safari_selectors)

\* the selector list of the entry points whose loop has no try block
UnguardedSelectors ==
    CASE entry = "arc" -> arc_selectors
      [] entry = "safari" -> safari_selectors
      [] OTHER -> << >>

\* Method 2: the Candidate Region Scorer and the Markdown Normalizer, when no
\* earlier stage gave content and the method flag enables it. parse_html_file
\* works on its own soup; the others parse the html again.
Scorer ==
    /\ pc = "scorer"
    /\ IF ScorerEnabled(content, method)
       THEN LET tree == Decompose(IF entry = "file" THEN soup ELSE html, ScorerRemovedTags)
                main_content == ChooseRegion(tree)
            IN  /\ invoked' = Append(invoked, "scorer")
                /\ soup' = tree
                /\ IF WalkRaises(tree, UnguardedSelectors, selectorFault)
                   THEN /\ Handle("SelectorSyntaxError", "selector lookup failed")
                        /\ UNCHANGED <<region, selected, content>>
                   ELSE /\ region' = main_content
                        /\ selected' = SelectorStage(tree)
                        /\ content' = IF main_content # None THEN Some(ToMarkdown(Val(main_content)))
                                      ELSE IF entry = "file" THEN content ELSE None
                        /\ pc' = "fallback"
                        /\ UNCHANGED <<result, raised, exitCode, fault>>
       ELSE /\ content' = IF entry = "file" \/ Truthy(content) THEN content ELSE None
            /\ pc' = "fallback"
            /\ UNCHANGED <<invoked, soup, region, selected, result, raised, exitCode, fault>>
    /\ UNCHANGED <<entry, method, html, maxLength, url, title, description,
                   emitted, selectorFault, engineOut>>

RECURSIVE InFirstBody(_, _)
\* kids with the first <body> of the tree replaced by its decomposed copy
InFirstBody(kids, names) ==
    IF kids = << >> THEN [kids |-> << >>, found |-> FALSE]
    ELSE LET k == kids[1]
         IN  IF IsTag(k) /\ k.name = "body"
             THEN [kids |-> <<Decompose(k, names)>> \o Tail(kids), found |-> TRUE]
             ELSE LET r == InFirstBody(k.kids, names)
                  IN  IF r.found
                      THEN [kids |-> <<[k EXCEPT !.kids = r.kids]>> \o Tail(kids), found |-> TRUE]
                      ELSE LET t == InFirstBody(Tail(kids), names)
                           IN  [kids |-> <<k>> \o t.kids, found |-> t.found]

\* the message of the ValueError raised when nothing was extracted
FailedMessage ==
    IF entry \in {"fetch", "js"} THEN "Failed to extract content from webpage"
    ELSE "Failed to extract content"

\* what each entry point does with an empty content: Method 3 of
\* parse_html_file, soup.get_text of Safari and Arc, ValueError elsewhere
Fallback ==
    /\ pc = "fallback"
    /\ IF Truthy(content)
       THEN /\ pc' = "format"
            /\ UNCHANGED <<content, soup, invoked, result, raised, exitCode, fault>>
       ELSE CASE entry = "file" ->
                    /\ IF FindTag(soup, "body") # None
                       THEN /\ content' = Some(BodyText(soup))
                            /\ soup' = [soup EXCEPT !.kids = InFirstBody(soup.kids, FallbackRemovedTags).kids]
                       ELSE UNCHANGED <<content, soup>>
                    /\ invoked' = Append(invoked, "fallback")
                    /\ pc' = "format"
                    /\ UNCHANGED <<result, raised, exitCode, fault>>
              [] entry = "arc" ->
                    /\ content' = Some(AllText(html))
                    /\ invoked' = Append(invoked, "fallback")
                    /\ pc' = "format"
                    /\ UNCHANGED <<soup, result, raised, exitCode, fault>>
              [] entry = "safari" ->
                    /\ invoked' = Append(invoked, "fallback")
                    /\ content' = Some(AllText(html))
                    /\ IF AllText(html) # ""
                       THEN /\ pc' = "format"
                            /\ UNCHANGED <<result, raised, exitCode, fault>>
                       ELSE Handle("ValueError", FailedMessage)
                    /\ UNCHANGED soup
              [] OTHER ->
                    /\ Handle("ValueError", FailedMessage)
                    /\ UNCHANGED <<content, soup, invoked>>
    /\ UNCHANGED <<entry, method, html, maxLength, url, title, description,
                   region, selected, emitted, selectorFault, engineOut>>

\* the title of the header line, per entry point
HeaderTitle ==
    CASE entry \in {"file", "arc"} -> Fmt(title)
      [] OTHER -> IF Truthy(title) THEN Val(title) ELSE "Untitled"

\* OutputLines with the Source line emitted unconditionally
OutputLinesAlwaysSource ==
    <<"# " \o HeaderTitle, "Source: " \o Fmt(url)>>
    \o (IF entry = "fetch" /\ Truthy(description)
        THEN <<"Description: " \o Val(description)>> ELSE << >>)
    \o <<"\n---\n">>
    \o <<IF entry = "file" /\ ~Truthy(content) THEN Placeholder ELSE Fmt(content)>>

\* the output list of each entry point
OutputLines ==
    <<"# " \o HeaderTitle>>
    \o (IF entry # "file" \/ Truthy(url) THEN <<"Source: " \o Fmt(url)>> ELSE << >>)
    \o (IF entry = "fetch" /\ Truthy(description)
        THEN <<"Description: " \o Val(description)>> ELSE << >>)
    \o <<"\n---\n">>
    \o <<IF entry = "file" /\ ~Truthy(content) THEN Placeholder ELSE Fmt(content)>>

\* '\n'.join(output)
Format ==
    /\ pc = "format"
    /\ result' = Some(Join(OutputLines, "\n"))
    /\ pc' = "returned"
    /\ UNCHANGED <<entry, method, html, maxLength, soup, url, title, description, content,
                   invoked, raised, exitCode, region, selected, emitted, selectorFault, engineOut, fault>>

\* Truncate with the suffix counted inside the limit
TruncateWithin(text, max_length) ==
    IF max_length # None /\ Val(max_length) # 0 /\ Len(text) > Val(max_length)
    THEN Slice(text, Val(max_length) - Len(TruncationSuffix)) \o TruncationSuffix
    ELSE text

\* if args.max_length and len(result) > args.max_length: result[:max_length] + suffix
Truncate(text, max_length) ==
    IF max_length # None /\ Val(max_length) # 0 /\ Len(text) > Val(max_length)
    THEN Slice(text, Val(max_length)) \o TruncationSuffix
    ELSE text

\* main(): the length limit (webpage_to_llm, webpage_to_llm_js) and the output;
\* the Arc flow copies to the clipboard first, and a failure there ends in exit(1)
MainOutput ==
    /\ pc = "returned"
    /\ \E ok \in BOOLEAN :
        /\ (entry # "arc") => ok
        /\ IF ok
           THEN /\ emitted' = Some(IF entry \in {"fetch", "js"} THEN Truncate(Val(result), maxLength)
                                   ELSE Val(result))
                /\ UNCHANGED <<exitCode, fault>>
           ELSE /\ exitCode' = ExceptClause(entry, "FileNotFoundError", "pbcopy").exits
                /\ fault' = Some(<<"FileNotFoundError", "pbcopy">>)
                /\ UNCHANGED emitted
    /\ pc' = "done"
    /\ UNCHANGED <<entry, method, html, maxLength, soup, url, title, description, content,
                   invoked, result, raised, region, selected, selectorFault, engineOut>>

Next == Fetch \/ ExtractMetadata \/ Engine \/ Scorer \/ Fallback \/ Format \/ MainOutput

Spec == Init /\ [][Next]_vars

----------------------------------------------------------------------------
(* Properties *)

Separator == "\n\n---\n\n"
\* the part of an output after the separator block
BodyOf(text) ==
    LET i == Find(text, Separator, 1)
    IN  IF i = 0 THEN "" ELSE Sub(text, i + Len(Separator), Len(text))
\* the first line of an output
FirstLine(text) == Split(text, "\n")[1]

NetworkEntries == {"fetch", "js", "cookies", "safari"}
\* the engine was not invoked or returned nothing
EngineGaveNothing == engineOut = None \/ ~Truthy(Val(engineOut))

\* C1: with method auto, once the engine has returned a non-empty result the
\* Scorer is never invoked in that call, the content stays that result and the
\* body of the output is that result verbatim, in every entry point.
C1_CascadeOrder ==
    (method = "auto" /\ engineOut # None /\ Truthy(Val(engineOut))) =>
        /\ ~Was("scorer")
        /\ region = None
        /\ content = Val(engineOut)
        /\ (result # None => BodyOf(Val(result)) = Val(Val(engineOut)))

C1_Witness ==
    /\ pc = "done" /\ method = "auto" /\ entry = "file"
    /\ html = DocOf(PreNone, HeadDocs, BodyArticles)
    /\ engineOut = Some(Some(EngineSentinel))
    /\ result = Some("# Docs\n\n---\n\n" \o EngineSentinel)

C3_Placeholder ==
    (entry = "file" /\ result # None) =>
        /\ BodyOf(Val(result)) # ""
        /\ (~Truthy(content) => BodyOf(Val(result)) = Placeholder)
        /\ (html = DocNavFooter /\ EngineGaveNothing => BodyOf(Val(result)) = Placeholder)

C3_Witness ==
    /\ pc = "done" /\ entry = "file" /\ method = "trafilatura"
    /\ html = DocNavFooter
    /\ engineOut = Some(None)
    /\ result = Some("# Docs\n\n---\n\nNo content extracted")

\* C4 (as stated): in the network entry points a failed call returns a string
\* of the form "Error: {message}".
C4_ErrorFormat ==
    (entry \in NetworkEntries /\ fault # None) =>
        (result # None /\ StartsWith(Val(result), "Error: "))

\* C4 (amended): in the network entry points a call fails exactly when a
\* collaborator, the engine or a selector lookup raises or no content is left
\* after the enabled stages, and it then returns "Error fetching webpage: {message}"
\* (process_webpage, request errors), "Error processing webpage: {message}"
\* (process_webpage otherwise, process_js_webpage) or "Error: {message}"
\* (process_with_cookies, process_with_safari).
C4_Amended ==
    (entry \in NetworkEntries /\ pc \in {"returned", "done"}) =>
        /\ (fault = None => Truthy(content) /\ StartsWith(Val(result), "# "))
        /\ (fault # None =>
                LET kind == Val(fault)[1]
                    message == Val(fault)[2]
                    prefix == CASE entry = "fetch" /\ kind = "RequestException" -> "Error fetching webpage: "
                                [] entry = "fetch" /\ kind # "RequestException" -> "Error processing webpage: "
                                [] entry = "js" -> "Error processing webpage: "
                                [] OTHER -> "Error: "
                IN  result = Some(prefix \o message))

C4_Witness ==
    /\ pc = "done" /\ entry = "fetch"
    /\ ~Truthy(content)
    /\ result = Some("Error processing webpage: Failed to extract content from webpage")

\* C5 (as stated): for the end-to-end document and method selector the body
\* contains "# Hi" and "World" and no nav text, in parse_html_file as well.
C5_EndToEnd ==
    (html = DocE2E /\ method = "beautifulsoup" /\ pc = "done" /\ fault = None) =>
        /\ Contains(BodyOf(Val(result)), "# Hi")
        /\ Contains(BodyOf(Val(result)), "World")
        /\ ~Contains(BodyOf(Val(result)), "skip")

\* C5 (amended): for the end-to-end document and method selector the body
\* contains "World" and no nav text; in the first-match front ends it is
\* "# Hi\nWorld"; in parse_html_file <main> holds 7 characters, under the
\* 100-character floor, so no region is chosen and the raw-text fallback gives
\* the body "World", without the heading.
C5_Amended ==
    (html = DocE2E /\ method = "beautifulsoup" /\ pc = "done" /\ fault = None) =>
        /\ Contains(BodyOf(Val(result)), "World")
        /\ ~Contains(BodyOf(Val(result)), "skip")
        /\ (entry # "file" => BodyOf(Val(result)) = "# Hi\nWorld")
        /\ (entry = "file" => BodyOf(Val(result)) = "World" /\ region = None)

C5_Witness ==
    /\ html = DocE2E /\ method = "beautifulsoup" /\ pc = "done" /\ entry = "file"
    /\ invoked = <<"scorer", "fallback">>
    /\ result = Some("# Docs\n\n---\n\nWorld")

\* C6: every non-error output is the line "# {title}", then "Source: {url}" iff
\* a URL is known, then "Description: {description}" only in process_webpage
\* and only for a non-empty description, then the separator block, then the
\* body, joined by newlines.
C6_Template ==
    (result # None /\ (fault = None \/ entry = "arc")) =>
        Val(result) =
            "# " \o HeaderTitle \o "\n"
            \o (IF url # None THEN "Source: " \o Val(url) \o "\n" ELSE "")
            \o (IF entry = "fetch" /\ description # None /\ Val(description) # ""
                THEN "Description: " \o Val(description) \o "\n" ELSE "")
            \o "\n---\n" \o "\n"
            \o (IF entry = "file" /\ ~Truthy(content) THEN Placeholder ELSE Val(content))

C6_Witness ==
    /\ pc = "done" /\ entry = "fetch" /\ method = "beautifulsoup"
    /\ description = Some("About")
    /\ result = Some("# Docs\nSource: https://example.com/page\nDescription: About\n\n---\n\n# Hi\nWorld")

C8_MethodGating ==
    /\ (Was("engine") => method \in {"trafilatura", "auto"})
    /\ (engineOut # None => Was("engine"))
    /\ (Was("scorer") => method \in {"beautifulsoup", "auto"} /\ EngineGaveNothing)
    /\ (region # None => Was("scorer"))

C8_Witness ==
    /\ pc = "done" /\ entry = "cookies" /\ method = "trafilatura"
    /\ engineOut = Some(Some(""))
    /\ invoked = <<"engine">>
    /\ result = Some("Error: Failed to extract content")

\* the URL the claim describes: only Comment nodes are scanned
CommentUrl(tree) ==
    LET hit(d) == d.kind = "comment" /\ Contains(d.s, "saved from url")
    IN  FirstSavedUrl(SelectSeq(Descendants(tree), hit))

\* C9: in parse_html_file only HTML comments are scanned for the
\* "saved from url" marker: the recovered URL is the one of the comments, it is
\* null when no comment matches, and then no Source line is emitted.
C9_OnlyComments ==
    (entry = "file" /\ pc \notin {"start", "metadata"} /\ soup # None) =>
        /\ url = CommentUrl(html)
        /\ (CommentUrl(html) = None /\ result # None => ~Contains(Val(result), "Source: "))

\* the text of the document's <title>, "" when it has none
TitleText(tree) ==
    IF FindTag(tree, "title") = None THEN "" ELSE GetText(Val(FindTag(tree, "title")), "")

\* C10: in parse_html_file and process_webpage the header line is "# " and the
\* text of <title>, and "# Untitled" when the document has no <title> element
\* or no title text.
C10_Title ==
    (entry \in {"file", "fetch"} /\ result # None /\ fault = None) =>
        FirstLine(Val(result)) =
            "# " \o (IF TitleText(html) # "" THEN TitleText(html) ELSE "Untitled")

----------------------------------------------------------------------------
(* The Candidate Region Scorer on generated documents: the <body> holds at  *)
(* most MaxBodyKids elements of ElementPool, in any order, and the call is  *)
(* one with method selector of an entry point of each Scorer configuration. *)

MaxBodyKids == 2

RawDiv(s) == E("div", <<Text(s)>>)
MainAtFloor == E("main", <<P(Filler(MinSelectorText))>>)
MainAboveFloor == E("main", <<P(Filler(MinSelectorText + 1))>>)
ArticleLong == E("article", <<P(Filler(MinSelectorText + 50))>>)
ContentAboveFloor == El("div", WithClass("content"), <<P(Filler(MinSelectorText + 1))>>)
CookieDiv == RawDiv("Cookie banner: accept all cookies... " \o Filler(MinDivText + 30))
PlainDiv == RawDiv(Filler(MinDivText + 1))
DivAtFloor == RawDiv(Filler(MinDivText))
LateMarkerDiv == RawDiv(Filler(MarkerWindow) \o "Login" \o Filler(MinDivText - MarkerWindow))
ShortDiv == RawDiv("short div")
NestedDivs == E("div", <<PlainDiv, CookieDiv>>)

ElementPool == {MainAtFloor, MainAboveFloor, ArticleLong, ContentAboveFloor, CookieDiv,
                PlainDiv, DivAtFloor, LateMarkerDiv, ShortDiv, NestedDivs}

RECURSIVE BodiesOf(_)
\* the sequences of at most n elements of ElementPool
BodiesOf(n) ==
    IF n = 0 THEN {<< >>}
    ELSE LET shorter == BodiesOf(n - 1)
         IN  shorter \cup {<<e>> \o b : e \in ElementPool, b \in shorter}

ScorerDocs == {DocOf(PreNone, HeadDocs, body) : body \in BodiesOf(MaxBodyKids)}

ScorerInit ==
    /\ entry \in {"file", "js", "safari", "arc"}
    /\ method = (IF entry = "arc" THEN "auto" ELSE "beautifulsoup")
    /\ html \in ScorerDocs
    /\ maxLength = None
    /\ selectorFault = {}
    /\ pc = "start"
    /\ soup = None
    /\ url = None
    /\ title = None
    /\ description = None
    /\ content = None
    /\ invoked = << >>
    /\ result = None
    /\ raised = None
    /\ exitCode = None
    /\ region = None
    /\ selected = None
    /\ emitted = None
    /\ engineOut = None
    /\ fault = None

SpecScorer == ScorerInit /\ [][Next]_vars

BodyWith(kids) == DocOf(PreNone, HeadDocs, kids)

RECURSIVE Encountered(_, _)
\* the elements the loop over the selectors examines, in the order it meets them
Encountered(tree, selectors) ==
    IF selectors = << >> THEN << >>
    ELSE Select(tree, selectors[1]) \o Encountered(tree, Tail(selectors))

\* C12: in parse_html_file, after the whole selector list has been tried, the
\* region of the selector pass is null when no matched element has more than
\* 100 characters of text; otherwise it is a matched element of maximal text
\* length among those with more than 100 characters, whatever the position of
\* its selector in the list, and among equal lengths the first one the loop
\* met.
C12_ScoreAll ==
    (entry = "file" /\ Was("scorer")) =>
        LET seen == Encountered(soup, content_selectors)
            len == [i \in 1..Len(seen) |-> TextLength(seen[i])]
            ok == {i \in 1..Len(seen) : len[i] > MinSelectorText}
        IN  IF ok = {} THEN selected = None
            ELSE LET top == Max({len[i] : i \in ok})
                 IN  selected = Some(seen[Min({i \in ok : len[i] = top})])

C12_Witness ==
    /\ entry = "file" /\ pc = "done"
    /\ html = BodyWith(<<MainAboveFloor, ArticleLong>>)
    /\ selected = Some(ArticleLong)
    /\ region = Some(ArticleLong)

\* C13: in parse_html_file a selector-matched element with exactly 100
\* characters of text is never the region of the selector pass, and when the
\* longest matched element has 101 characters the region is an element with
\* 101 characters.
C13_Floor ==
    (entry = "file" /\ Was("scorer")) =>
        LET seen == Encountered(soup, content_selectors)
            len == [i \in 1..Len(seen) |-> TextLength(seen[i])]
        IN  /\ \A i \in 1..Len(seen) : len[i] = MinSelectorText => selected # Some(seen[i])
            /\ (/\ \E i \in 1..Len(seen) : len[i] = MinSelectorText + 1
                /\ \A i \in 1..Len(seen) : len[i] <= MinSelectorText + 1)
               => (selected # None /\ TextLength(Val(selected)) = MinSelectorText + 1)

C13_Witness ==
    /\ entry = "file" /\ pc = "done"
    /\ html = BodyWith(<<MainAtFloor, ContentAboveFloor>>)
    /\ selected = Some(ContentAboveFloor)
    /\ region = Some(ContentAboveFloor)

\* no marker lies within the first MarkerWindow characters of text
MarkerFree(text) ==
    \A m \in {"Cookie", "Accept", "Login", "Sign in"} :
        \A p \in 1..(MarkerWindow - Len(m) + 1) : Sub(text, p, p + Len(m) - 1) # m

\* C14: in parse_html_file the largest-text-div pass runs only when the
\* selector pass found no region; its region is then a div of maximal text
\* length among the divs with more than 200 characters of text and none of the
\* markers Cookie, Accept, Login, Sign in within their first 100 characters,
\* null when there is no such div, and never a div whose text starts with
\* "Cookie banner: accept all cookies...".
C14_LargestDiv ==
    (entry = "file" /\ Was("scorer")) =>
        LET divs == FindAll(soup, {"div"})
            text == [i \in 1..Len(divs) |-> GetText(divs[i], "")]
            kept == {i \in 1..Len(divs) : Len(text[i]) > MinDivText /\ MarkerFree(text[i])}
        IN  /\ (selected # None => region = selected)
            /\ (selected = None /\ kept = {} => region = None)
            /\ (selected = None /\ kept # {} =>
                    \E i \in kept : /\ region = Some(divs[i])
                                    /\ \A j \in kept : Len(text[j]) <= Len(text[i]))
            /\ (selected = None /\ region # None =>
                    ~StartsWith(GetText(Val(region), ""), "Cookie banner: accept all cookies..."))

C14_Witness ==
    /\ entry = "file" /\ pc = "done"
    /\ html = BodyWith(<<CookieDiv, LateMarkerDiv>>)
    /\ TextLength(CookieDiv) > TextLength(LateMarkerDiv)
    /\ selected = None
    /\ region = Some(LateMarkerDiv)

\* the first match of the earliest entry that matches, for the selector list
\* of the Arc and Safari front ends and the chain of soup.find calls of the
\* Selenium front end
EarliestMatch(tree) ==
    LET list == IF entry = "arc" THEN arc_selectors ELSE safari_selectors
        found == IF entry = "js"
                 THEN <<FindTag(tree, "main"), FindTag(tree, "article"),
                        FindDivClass(tree, "content"), FindDivId(tree, "content"),
                        FindDivClass(tree, "docs-content"), FindDivClass(tree, "markdown-body")>>
                 ELSE [i \in 1..Len(list) |-> First(Select(tree, list[i]))]
        hits == {i \in 1..Len(found) : found[i] # None}
    IN  IF hits = {} THEN None ELSE found[Min(hits)]

\* is node one of the divs of longest text among those of tree with more than
\* floor characters
LongestDivAbove(tree, node, floor) ==
    LET divs == FindAll(tree, {"div"})
    IN  /\ \E i \in 1..Len(divs) : divs[i] = node
        /\ TextLength(node) > floor
        /\ \A i \in 1..Len(divs) : TextLength(divs[i]) <= TextLength(node)

\* C15 (as stated): in the Arc, Safari and Selenium front ends the region is
\* the first match of the earliest selector that matches (main before a longer
\* article); without any match it is the div of longest text, whatever its
\* length; without any div it is <body>.
C15_FirstMatch ==
    (entry \in {"js", "safari", "arc"} /\ Was("scorer") /\ selectorFault = {}) =>
        /\ (FindTag(soup, "main") # None => region = FindTag(soup, "main"))
        /\ (EarliestMatch(soup) # None => region = EarliestMatch(soup))
        /\ (EarliestMatch(soup) = None /\ FindTag(soup, "div") # None =>
                region # None /\ LongestDivAbove(soup, Val(region), -1))
        /\ (EarliestMatch(soup) = None /\ FindTag(soup, "div") = None =>
                region = FindTag(soup, "body"))

\* C15 (amended): the first match of the earliest matching selector is the
\* region, without any comparison of text lengths. Without a match, the Safari
\* front end takes the div of longest text, whatever its length, and <body>
\* when there is no div; the Arc front end takes the longest div among those
\* with more than 100 characters of text and <body> when there is none; the
\* Selenium front end has no div pass and takes <body>.
C15_Amended ==
    (entry \in {"js", "safari", "arc"} /\ Was("scorer") /\ selectorFault = {}) =>
        LET body == FindTag(soup, "body")
            anyDiv == FindTag(soup, "div") # None
            bigDiv == \E i \in 1..Len(FindAll(soup, {"div"})) :
                          TextLength(FindAll(soup, {"div"})[i]) > ArcMinDivText
        IN  /\ (FindTag(soup, "main") # None => region = FindTag(soup, "main"))
            /\ selected = EarliestMatch(soup)
            /\ (selected # None => region = selected)
            /\ (selected = None =>
                    CASE entry = "safari" ->
                            IF anyDiv THEN region # None /\ LongestDivAbove(soup, Val(region), -1)
                            ELSE region = body
                      [] entry = "arc" ->
                            IF bigDiv
                            THEN region # None /\ LongestDivAbove(soup, Val(region), ArcMinDivText)
                            ELSE region = body
                      [] entry = "js" -> region = body)

C15_Witness ==
    /\ entry = "js" /\ pc = "done"
    /\ html = BodyWith(<<ShortDiv, PlainDiv>>)
    /\ selected = None
    /\ region = Some(E("body", <<ShortDiv, PlainDiv>>))

----------------------------------------------------------------------------
(* The whitespace collapse of the Markdown Normalizer on its own: the       *)
(* markdown handed to it is any string over NormalizerAlphabet of at most   *)
(* MaxMarkdownLen characters, and the collapse is applied to it and then to *)
(* its own output. html holds the markdown, content the first output and    *)
(* result the second.                                                       *)

MaxMarkdownLen == 5
NormalizerAlphabet == {"a", " ", "\t", "\n"}

RECURSIVE Strings(_)
\* the strings over NormalizerAlphabet of at most n characters
Strings(n) ==
    IF n = 0 THEN {""}
    ELSE LET shorter == Strings(n - 1)
         IN  shorter \cup {c \o s : c \in NormalizerAlphabet, s \in shorter}

NormalizerInit ==
    /\ html \in Strings(MaxMarkdownLen)
    /\ pc = "markdown"
    /\ entry = "normalizer"
    /\ method = "beautifulsoup"
    /\ maxLength = None
    /\ selectorFault = {}
    /\ soup = None
    /\ url = None
    /\ title = None
    /\ description = None
    /\ content = None
    /\ invoked = << >>
    /\ result = None
    /\ raised = None
    /\ exitCode = None
    /\ region = None
    /\ selected = None
    /\ emitted = None
    /\ engineOut = None
    /\ fault = None

\* the clean-up of the converted region
Normalize ==
    /\ pc = "markdown"
    /\ content' = Some(Collapse(html))
    /\ pc' = "collapsed"
    /\ UNCHANGED <<entry, method, html, maxLength, soup, url, title, description, invoked,
                   result, raised, exitCode, region, selected, emitted, selectorFault,
                   engineOut, fault>>

\* the clean-up applied to its own output
NormalizeAgain ==
    /\ pc = "collapsed"
    /\ result' = Some(Collapse(Val(content)))
    /\ pc' = "collapsed twice"
    /\ UNCHANGED <<entry, method, html, maxLength, soup, url, title, description, content,
                   invoked, raised, exitCode, region, selected, emitted, selectorFault,
                   engineOut, fault>>

NormalizerNext == Normalize \/ NormalizeAgain

SpecNormalizer == NormalizerInit /\ [][NormalizerNext]_vars

\* no line of text is empty or starts or ends with a whitespace character
CleanLines(text) ==
    \/ text = ""
    \/ \A i \in 1..Len(Split(text, "\n")) :
          LET line == Split(text, "\n")[i]
          IN  /\ line # ""
              /\ ~IsSpace(Char(line, 1))
              /\ ~IsSpace(Char(line, Len(line)))

\* C11: the whitespace collapse is idempotent: applied to its own output it
\* returns that output unchanged, and its output has no empty line and no line
\* with leading or trailing whitespace.
C11_CollapseIdempotent ==
    /\ (content # None => CleanLines(Val(content)))
    /\ (pc = "collapsed twice" => result = content)

C11_Witness ==
    /\ pc = "collapsed twice"
    /\ html = "a \n\ta"
    /\ content = Some("a\na")
    /\ result = Some("a\na")

----------------------------------------------------------------------------
(* The raw-text fallback, the structural removal and the selector faults    *)

\* the lines the claim describes: the stripped text lines of the <body> of
\* tree without the elements named in names, of 3 or more characters and
\* without the prefix MuiTypography
BodyLines(tree, names) ==
    LET body == Decompose(Val(FindTag(tree, "body")), names)
        lines == StripAll(Split(GetText(body, "\n"), "\n"))
        wanted(line) == Len(line) >= 3 /\ ~StartsWith(line, "MuiTypography")
    IN  SelectSeq(lines, wanted)

\* C16 (as stated): in parse_html_file, whenever the raw-text fallback runs,
\* for every method, its result is the text lines of <body> without the script,
\* style, nav, header and footer elements, stripped and in document order,
\* every line of 3 or more characters without the prefix MuiTypography kept
\* and no other.
C16_RawFallback ==
    (entry = "file" /\ Was("fallback") /\ FindTag(html, "body") # None) =>
        content = Some(Join(BodyLines(html, {"script", "style", "nav", "header", "footer"}), "\n"))

\* C16 (amended): in parse_html_file the fallback reads the tree the earlier
\* stages left: its result is those lines of <body> without the script,
\* style, nav, header and footer elements and, when the Scorer stage ran
\* before it (method auto or selector), also without the aside and button
\* elements. The fallback of the Safari and Arc front ends is the text of the
\* whole document as parsed anew, without any removal or line filter.
C16_Amended ==
    /\ (entry = "file" /\ Was("fallback") /\ FindTag(html, "body") # None) =>
            content = Some(Join(BodyLines(html,
                         IF Was("scorer")
                         THEN {"script", "style", "nav", "header", "footer", "aside", "button"}
                         ELSE {"script", "style", "nav", "header", "footer"}), "\n"))
    /\ (entry \in {"safari", "arc"} /\ Was("fallback")) =>
            content = Some(Join(StrippedStrings(html), "\n"))

C16_Witness ==
    /\ entry = "file" /\ pc = "done" /\ method = "beautifulsoup"
    /\ html = DocOf(PreNone, HeadDocs, BodyChrome)
    /\ invoked = <<"scorer", "fallback">>
    /\ content = Some("Plain paragraph")

\* is some descendant of node an element named in names
HoldsTag(node, names) == FindAll(node, names) # << >>

\* C17: in every entry point the region the Scorer returns holds no script,
\* style, nav, header, footer, aside or button element.
C17_StructuralRemoval ==
    (Was("scorer") /\ region # None) =>
        ~HoldsTag(Val(region), {"script", "style", "nav", "header", "footer", "aside", "button"})

\* C18: a selector whose lookup fails is skipped: the extraction call is never
\* aborted by it, and in parse_html_file the region of the selector pass is
\* the one the other selectors give.
C18_SelectorSkipped ==
    /\ (fault # None => Val(fault)[1] # "SelectorSyntaxError")
    /\ (entry = "file" /\ Was("scorer")) =>
            LET works(s) == s \notin selectorFault
            IN  selected = SelectorPass(soup, SelectSeq(content_selectors, works), None, {})

\* the stripped strings inside the elements of tree named in names
TextsOf(tree, names) ==
    UNION {{StrippedStrings(FindAll(tree, names)[i])[j] :
               j \in 1..Len(StrippedStrings(FindAll(tree, names)[i]))} :
           i \in 1..Len(FindAll(tree, names))}

\* the lines of text as a set
LineSet(text) == {Split(text, "\n")[i] : i \in 1..Len(Split(text, "\n"))}

\* C19: in parse_html_file the fallback reads the tree the Scorer stage
\* mutated. The Scorer ran before it exactly when the method is auto or
\* selector, and then no text of an aside or button element is in the
\* fallback result; with method engine it did not run and the text of the
\* aside and button elements is part of the result. No text of a script,
\* style, nav, header or footer element is in the result in either case.
C19_SharedTree ==
    (entry = "file" /\ Was("fallback") /\ FindTag(html, "body") # None) =>
        LET lines == LineSet(Val(content))
            extra == TextsOf(html, {"aside", "button"})
        IN  /\ lines \cap TextsOf(html, {"script", "style", "nav", "header", "footer"}) = {}
            /\ (Was("scorer") <=> method \in {"auto", "beautifulsoup"})
            /\ (Was("scorer") => lines \cap extra = {})
            /\ (~Was("scorer") => extra \subseteq lines)

C19_Witness ==
    /\ entry = "file" /\ pc = "done" /\ method = "trafilatura"
    /\ html = DocOf(PreNone, HeadDocs, BodyChrome)
    /\ invoked = <<"engine", "fallback">>
    /\ content = Some("Related links\nSubscribe\nPlain paragraph")

\* C20: in the first-match front ends a <main> element without text is the
\* region: no div and no <body> is taken instead, the normalized result is the
\* empty string, and process_webpage, process_js_webpage and
\* process_with_cookies, which have no raw-text fallback, then return their
\* extraction failure, whatever text the rest of <body> holds.
C20_EmptyMatch ==
    LET main == FindTag(soup, "main")
    IN  (/\ entry # "file" /\ Was("scorer")
         /\ main # None /\ TextLength(Val(main)) = 0) =>
            /\ region = main
            /\ (pc = "fallback" => content = Some(""))
            /\ (entry \in {"fetch", "js", "cookies"} /\ pc \in {"returned", "done"} =>
                    /\ content = Some("")
                    /\ fault = Some(<<"ValueError", FailedMessage>>)
                    /\ StartsWith(Val(result), "Error")
                    /\ Contains(Val(result), "Failed to extract content"))

C20_Witness ==
    /\ entry = "fetch" /\ pc = "done" /\ method = "beautifulsoup"
    /\ html = DocOf(PreNone, HeadDocs, BodyEmptyMain)
    /\ region = Some(E("main", << >>))
    /\ GetText(Val(FindTag(html, "body")), "") = "Text outside main"
    /\ result = Some("Error processing webpage: Failed to extract content from webpage")
====
